---- MODULE Spec2Model ----
(***************************************************************************)
(* The request flow of the SFTP microservice (src/main.py, download_files) *)
(* as a state machine.  One frame per request holds the locals of the      *)
(* handler and its position; the remote server and the process-wide        *)
(* logger are shared.  Library calls (cryptography, paramiko) are steps    *)
(* whose result is an input of the step: a return value or one of the      *)
(* exception classes the handler distinguishes.                            *)
(*                                                                         *)
(* Wall-clock readings (the [HH:MM:SS] prefix of a log line,               *)
(* download_time, duration_seconds) are not part of the state.             *)
(***************************************************************************)
EXTENDS Integers, Sequences, FiniteSets, Bags, TLC

(***************************************************************************)
(* Bounds of the model.                                                    *)
(***************************************************************************)
MaxExpected == 2

\* The length of expected_files when two requests run at once.
MaxConcurrentExpected == 1

(***************************************************************************)
(* Program constants.                                                      *)
(***************************************************************************)
ChannelTimeout == 180

Requests == {1, 2}

Names == {"a.txt", "b.txt", "c.txt"}

\* File contents on the remote server, as byte sequences.
Contents == {<<>>, <<77, 97>>}

SeqsUpTo(S, n) == UNION {[1..k -> S] : k \in 0..n}

Range(q) == {q[k] : k \in 1..Len(q)}

RECURSIVE SumSizes(_)
SumSizes(files) ==
    IF files = <<>> THEN 0
    ELSE files[1].size + SumSizes(Tail(files))

(***************************************************************************)
(* base64.b64encode(file_content).decode('utf-8'): three bytes become four *)
(* characters of the alphabet, a short last group is padded with "=".      *)
(***************************************************************************)
B64Alphabet ==
    << "A", "B", "C", "D", "E", "F", "G", "H", "I", "J", "K", "L", "M",
       "N", "O", "P", "Q", "R", "S", "T", "U", "V", "W", "X", "Y", "Z",
       "a", "b", "c", "d", "e", "f", "g", "h", "i", "j", "k", "l", "m",
       "n", "o", "p", "q", "r", "s", "t", "u", "v", "w", "x", "y", "z",
       "0", "1", "2", "3", "4", "5", "6", "7", "8", "9", "+", "/" >>

B64Group(b) ==
    LET n  == Len(b)
        b2 == IF n >= 2 THEN b[2] ELSE 0
        b3 == IF n >= 3 THEN b[3] ELSE 0
        v  == b[1] * 65536 + b2 * 256 + b3
        c(k) == B64Alphabet[((v \div (64 ^ (3 - k))) % 64) + 1]
    IN  << c(0), c(1),
           IF n >= 2 THEN c(2) ELSE "=",
           IF n >= 3 THEN c(3) ELSE "=" >>

RECURSIVE b64encode(_)
b64encode(bytes) ==
    IF bytes = <<>> THEN <<>>
    ELSE IF Len(bytes) <= 3 THEN B64Group(bytes)
    ELSE B64Group(SubSeq(bytes, 1, 3)) \o b64encode(SubSeq(bytes, 4, Len(bytes)))

(***************************************************************************)
(* Exceptions.  The handler tells apart paramiko.AuthenticationException,  *)
(* paramiko.SSHException (its base class), fastapi.HTTPException and every *)
(* other Exception.                                                        *)
(***************************************************************************)
NoExc == [cls |-> "None", status |-> 0, msg |-> <<>>]

Raised(cls, msg) == [cls |-> cls, status |-> 0, msg |-> msg]

HTTPException(status_code, detail) ==
    [cls |-> "HTTPException", status |-> status_code, msg |-> detail]

\* isinstance(e, base) for the classes above.
IsInstance(e, base) ==
    CASE base = "Exception" -> e.cls # "None"
      [] base = "SSHException" -> e.cls \in {"SSHException", "AuthenticationException"}
      [] OTHER -> e.cls = base

StatusText(n) ==
    CASE n = 400 -> "400" [] n = 401 -> "401" [] n = 500 -> "500" [] OTHER -> "?"

\* str(e): HTTPException prints as "<status_code>: <detail>".
Str(e) ==
    IF e.cls = "HTTPException" THEN <<StatusText(e.status)>> \o e.msg ELSE e.msg


(***************************************************************************)
(* Key Loader (lines 116-163).  A key blob is described by what the        *)
(* parsers make of it: its container format, whether it is passphrase      *)
(* protected, and the type of the key inside.                              *)
(***************************************************************************)
Families == {"RSA", "Ed25519", "ECDSA", "DSA"}

KeyBlob(format, encrypted, type) ==
    [format |-> format, encrypted |-> encrypted, type |-> type]

KeyBlobs ==
    { KeyBlob("openssh", FALSE, "RSA"), KeyBlob("pem", FALSE, "ECDSA"),
      KeyBlob("openssh", TRUE, "Ed25519"), KeyBlob("pem", TRUE, "DSA"),
      KeyBlob("garbage", FALSE, "RSA"), KeyBlob("pem", FALSE, "X25519") }

Parsed(type) == [ok |-> TRUE, type |-> type, err |-> NoExc]

Failed(cls, msg) == [ok |-> FALSE, type |-> "None", err |-> Raised(cls, msg)]

\* crypto_serialization.load_ssh_private_key(file_bytes, password=None)
load_ssh_private_key(blob) ==
    IF blob.format = "openssh" /\ ~blob.encrypted THEN Parsed(blob.type)
    ELSE IF blob.format = "openssh" THEN Failed("ValueError", <<"Key is password-protected">>)
    ELSE Failed("ValueError", <<"Not OpenSSH private key format">>)

\* crypto_serialization.load_pem_private_key(file_bytes, password=None)
load_pem_private_key(blob) ==
    IF blob.format = "pem" /\ ~blob.encrypted THEN Parsed(blob.type)
    ELSE IF blob.format = "pem"
         THEN Failed("TypeError", <<"Password was not given but private key is encrypted">>)
    ELSE Failed("ValueError", <<"Could not deserialize key data">>)

\* key.private_bytes(Encoding.PEM, PrivateFormat.OpenSSH, NoEncryption())
private_bytes(type) ==
    IF type \in Families THEN Parsed(type)
    ELSE Failed("ValueError", <<"Unsupported key type", type>>)

\* Lines 121-156: the parse attempts, the re-encoding and the dispatch on
\* the key's type.  The result is the loaded key or the exception that
\* reaches the handler at line 158.
LoadPrivateKey(blob) ==
    LET first  == load_ssh_private_key(blob)
        key    == IF ~first.ok /\ first.err.cls = "ValueError"
                  THEN load_pem_private_key(blob) ELSE first
        pem    == IF key.ok THEN private_bytes(key.type) ELSE key
    IN  IF ~pem.ok THEN pem
        ELSE IF key.type \in Families THEN Parsed(key.type)
        ELSE Failed("ValueError", <<"Type de cle non supporte", key.type>>)

(***************************************************************************)
(* The frame of one request: the locals of download_files, its position,   *)
(* and the history of the remote operations it has issued.                 *)
(***************************************************************************)
NoPending == [kind |-> "none", value |-> NoExc]

NoResponse == [kind |-> "none", status |-> 0, body |-> <<>>]

Request(blob, expected) == [private_key |-> blob, expected_files |-> expected]

Frame(pc, req) ==
    [ pc |-> pc, request |-> req,
      ssh_client |-> "None", sftp_client |-> "None", channel_timeout |-> 0,
      private_key |-> "None", available_files |-> <<>>, i |-> 1,
      downloaded_files |-> <<>>, missing_files |-> <<>>,
      logs |-> <<>>, emit |-> <<>>,
      exc |-> NoExc, pending |-> NoPending, response |-> NoResponse,
      ops |-> <<>>, outcomes |-> <<>> ]

\* LogCapture.add: the line is kept in this request's accumulator and is
\* handed to the module-level logger.
Add(s, message) ==
    [s EXCEPT !.logs = Append(@, message), !.emit = Append(@, message)]

\* logger.info / logger.error called directly.
Log(s, message) == [s EXCEPT !.emit = Append(@, message)]

\* A remote or library operation this request issued, with its result.
Op(s, name, k, result) ==
    [s EXCEPT !.ops = Append(@, [op |-> name, i |-> k, result |-> result])]

\* An exception raised inside the try block of line 105.
Raise(s, e) == [s EXCEPT !.exc = e, !.pc = "except"]


(***************************************************************************)
(* The remote server: the entries of the directory at remote_path, in the  *)
(* order listdir returns them, each with the bytes of the file.            *)
(***************************************************************************)
Entry(name, data) == [name |-> name, data |-> data]

DirNames(dir) == [k \in 1..Len(dir) |-> dir[k].name]

RemoteDirs ==
    { d \in SeqsUpTo([name : Names, data : Contents], Cardinality(Names)) :
        \A j, k \in 1..Len(d) : j # k => d[j].name # d[k].name }

\* The bytes of the file remote_path/filename.
RemoteData(dir, filename) ==
    dir[CHOOSE k \in 1..Len(dir) : dir[k].name = filename].data

(***************************************************************************)
(* The steps of download_files.  Each takes the frame and the result of    *)
(* the library call it makes, and gives the frame after the step.          *)
(***************************************************************************)

\* LoadKey without the raise of line 160: the failure is logged and the flow
\* goes on to connect with private_key None.
LoadKeyContinues(s) ==
    LET s0  == [Add(s, <<"Demarrage de la connexion SFTP">>)
                  EXCEPT !.ssh_client = "created"]
        res == LoadPrivateKey(s.request.private_key)
        s1  == Op(s0, "load_key", 0, IF res.ok THEN "ok" ELSE res.err.cls)
    IN  IF res.ok
        THEN [Add(s1, <<"Cle chargee avec succes", res.type>>)
                EXCEPT !.private_key = res.type, !.pc = "connect"]
        ELSE [Add(s1, <<"Erreur lors du chargement de la cle">> \o res.err.msg)
                EXCEPT !.pc = "connect"]

\* Lines 106-163: create the SSH client and load the private key.
LoadKey(s) ==
    LET s0  == [Add(s, <<"Demarrage de la connexion SFTP">>)
                  EXCEPT !.ssh_client = "created"]
        res == LoadPrivateKey(s.request.private_key)
        s1  == Op(s0, "load_key", 0, IF res.ok THEN "ok" ELSE res.err.cls)
    IN  IF res.ok
        THEN [Add(s1, <<"Cle chargee avec succes", res.type>>)
                EXCEPT !.private_key = res.type, !.pc = "connect"]
        ELSE Raise(Add(s1, <<"Erreur lors du chargement de la cle">> \o res.err.msg),
                   HTTPException(400, <<"Impossible de charger la cle privee">>
                                        \o res.err.msg))

ConnectResults == {"ok", "AuthenticationException", "SSHException", "OSError"}

\* Lines 166-177: ssh_client.connect(...).  An authentication rejection
\* comes after the transport is up.
Connect(s, result) ==
    LET s0 == Add(Add(s, <<"Tentative de connexion SSH">>), <<"Utilisateur">>)
        s1 == Op(s0, "connect", 0, result)
    IN  IF result = "ok"
        THEN [Add(s1, <<"Connexion SSH etablie avec succes">>)
                EXCEPT !.ssh_client = "connected", !.pc = "open_sftp"]
        ELSE Raise([s1 EXCEPT !.ssh_client =
                        IF result = "AuthenticationException"
                        THEN "connected" ELSE "created"],
                   Raised(result, <<"connect failed">>))

OpenSftpResults == {"ok", "SSHException", "EOFError"}

\* Lines 180-181: sftp_client = ssh_client.open_sftp().
OpenSftp(s, result) ==
    LET s0 == Op(Add(s, <<"Ouverture de la session SFTP...">>),
                 "open_sftp", 0, result)
    IN  IF result = "ok"
        THEN [s0 EXCEPT !.sftp_client = "open", !.pc = "settimeout"]
        ELSE Raise(s0, Raised(result, <<"open_sftp failed">>))

\* Lines 182-184: the timeout of the SFTP channel.
SetTimeout(s) ==
    [Add(Add(Op(s, "settimeout", 0, "ok"), <<"Session SFTP etablie">>),
         <<"Repertoire cible">>)
       EXCEPT !.channel_timeout = ChannelTimeout, !.pc = "listdir"]

ListDirResults == {"ok", "IOError"}

\* Lines 187-204: sftp_client.listdir(request.remote_path), and the
\* announcement of the fetch loop.
ListDir(s, result, dir) ==
    LET s0 == Op(Add(s, <<"Listage des fichiers">>), "listdir", 0, result)
        available_files == DirNames(dir)
        shown == IF Len(available_files) <= 10
                 THEN <<"Fichiers">> \o available_files
                 ELSE <<"Premiers fichiers">> \o SubSeq(available_files, 1, 10)
    IN  IF result = "ok"
        THEN [Add(Add(Add(s0, <<"Fichiers disponibles", Len(available_files)>>),
                      shown),
                  <<"Telechargement de fichier(s) attendu(s)",
                    Len(s.request.expected_files)>>)
                EXCEPT !.available_files = available_files, !.pc = "loop"]
        ELSE Raise(Add(s0, <<"Erreur lors du listage", result>>),
                   HTTPException(400, <<"Impossible d'acceder au repertoire", result>>))


\* The entry of expected_files the loop of line 206 is at.
Filename(s) == s.request.expected_files[s.i]

\* One outcome recorded for the entry the loop is at; the loop moves on.
RecordMissing(s) ==
    [s EXCEPT !.missing_files = Append(@, Filename(s)),
              !.outcomes = Append(@, "Missing"),
              !.i = @ + 1, !.pc = "loop"]

\* RecordDownloaded with the file put at the front of downloaded_files.
RecordDownloadedFirst(s, file) ==
    [s EXCEPT !.downloaded_files = <<file>> \o @,
              !.outcomes = Append(@, "Downloaded"),
              !.i = @ + 1, !.pc = "loop"]

RecordDownloaded(s, file) ==
    [s EXCEPT !.downloaded_files = Append(@, file),
              !.outcomes = Append(@, "Downloaded"),
              !.i = @ + 1, !.pc = "loop"]

\* NextFile without the membership test of line 210.
NextFileUntested(s) ==
    [Add(s, <<"Telechargement", Filename(s)>>) EXCEPT !.pc = "stat"]

\* Lines 206-221: the membership test of the next expected file.
NextFile(s) ==
    IF Filename(s) \notin Range(s.available_files)
    THEN RecordMissing(Add(s, <<"Fichier manquant", Filename(s)>>))
    ELSE [Add(s, <<"Telechargement", Filename(s)>>) EXCEPT !.pc = "stat"]

\* FetchFailed without line 249: the failure is logged and the loop moves on
\* with nothing appended to missing_files.
FetchFailedUnrecorded(s, e) ==
    [Add(s, <<"Erreur telechargement", Filename(s)>> \o Str(e))
       EXCEPT !.outcomes = Append(@, "Missing"), !.i = @ + 1, !.pc = "loop"]

\* FetchFailed as a retry: the failure is logged and the same file is
\* fetched again.
FetchFailedRetry(s, e) ==
    [Add(s, <<"Erreur telechargement", Filename(s)>> \o Str(e)) EXCEPT !.pc = "stat"]

\* Lines 247-249: any exception of the fetch of one file.
FetchFailed(s, e) ==
    RecordMissing(Add(s, <<"Erreur telechargement", Filename(s)>> \o Str(e)))

FetchResults == {"ok", "IOError"}

\* Stat with the probe in a try of its own: a failure is logged and the
\* transfer is attempted all the same.
StatTolerant(s, result, dir) ==
    LET s0 == Op(s, "stat", s.i, result)
    IN  IF result = "ok"
        THEN [Add(s0, <<"Taille", Len(RemoteData(dir, Filename(s)))>>)
                EXCEPT !.pc = "getfo"]
        ELSE [Add(s0, <<"Taille inconnue", Filename(s)>>) EXCEPT !.pc = "getfo"]

\* Lines 224-226: sftp_client.stat(remote_file_path).
Stat(s, result, dir) ==
    LET s0 == Op(s, "stat", s.i, result)
    IN  IF result = "ok"
        THEN [Add(s0, <<"Taille", Len(RemoteData(dir, Filename(s)))>>)
                EXCEPT !.pc = "getfo"]
        ELSE FetchFailed(s0, Raised(result, <<"stat failed">>))

\* DownloadedFile with size taken from the encoded text, not the bytes read.
DownloadedFileEncodedSize(filename, file_content) ==
    [filename |-> filename, content_base64 |-> b64encode(file_content),
     size |-> Len(b64encode(file_content))]

\* Lines 238-243: the DownloadedFile built from the bytes read.
DownloadedFile(filename, file_content) ==
    [filename |-> filename, content_base64 |-> b64encode(file_content),
     size |-> Len(file_content)]

\* GetFo without the except clause of line 247 around getfo: whatever is in
\* file_data after a failed transfer is recorded as the file.
GetFoIgnoringFailure(s, result, dir) ==
    LET s0 == Op(s, "getfo", s.i, result)
        file_content == IF result = "ok" THEN RemoteData(dir, Filename(s)) ELSE <<>>
    IN  RecordDownloaded(
            Add(Add(s0, <<"Termine">>),
                <<Filename(s), "telecharge", Len(file_content)>>),
            [filename |-> Filename(s), content_base64 |-> b64encode(file_content),
             size |-> Len(file_content)])

\* Lines 228-249: sftp_client.getfo(remote_file_path, file_data) and the
\* record of the file.
GetFo(s, result, dir) ==
    LET s0 == Op(s, "getfo", s.i, result)
        file_content == RemoteData(dir, Filename(s))
    IN  IF result = "ok"
        THEN RecordDownloaded(
                 Add(Add(s0, <<"Termine">>),
                     <<Filename(s), "telecharge", Len(file_content)>>),
                 DownloadedFile(Filename(s), file_content))
        ELSE FetchFailed(s0, Raised(result, <<"getfo failed">>))

\* Lines 252-262.
Stats(s) ==
    [total_expected |-> Len(s.request.expected_files),
     total_downloaded |-> Len(s.downloaded_files),
     total_missing |-> Len(s.missing_files),
     total_size_bytes |-> SumSizes(s.downloaded_files)]

\* DownloadResponse with success meaning "something was downloaded".
DownloadResponseAnyDownloaded(s) ==
    [success |-> Len(s.downloaded_files) > 0,
     downloaded_files |-> s.downloaded_files,
     missing_files |-> s.missing_files,
     stats |-> Stats(s),
     logs |-> s.logs]

\* Lines 266-272.
DownloadResponse(s) ==
    [success |-> Len(s.missing_files) = 0,
     downloaded_files |-> s.downloaded_files,
     missing_files |-> s.missing_files,
     stats |-> Stats(s),
     logs |-> s.logs]

\* Lines 252-272: the report is the value the try block returns.
BuildReport(s) ==
    LET s0 == Add(s, <<"Telechargement termine", Len(s.downloaded_files),
                       Len(s.request.expected_files)>>)
    IN  [s0 EXCEPT !.pending = [kind |-> "return", value |-> DownloadResponse(s0)],
                   !.pc = "finally_sftp"]

\* Translate with the clause for the base class SSHException tried first.
TranslateBaseFirst(e) ==
    IF IsInstance(e, "SSHException")
    THEN HTTPException(500, <<"Erreur de connexion SSH">> \o Str(e))
    ELSE IF IsInstance(e, "AuthenticationException")
    THEN HTTPException(401, <<"Echec d'authentification SFTP">>)
    ELSE HTTPException(500, <<"Erreur lors du telechargement">> \o Str(e))

\* Translate with one clause for AuthenticationException and SSHException.
TranslateSshAsAuth(e) ==
    IF IsInstance(e, "AuthenticationException") \/ IsInstance(e, "SSHException")
    THEN HTTPException(401, <<"Echec d'authentification SFTP">>)
    ELSE HTTPException(500, <<"Erreur lors du telechargement">> \o Str(e))

\* Lines 274-294: the except clauses, tried in order, and the HTTPException
\* each raises in place of the exception it caught.
Translate(e) ==
    IF IsInstance(e, "AuthenticationException")
    THEN HTTPException(401, <<"Echec d'authentification SFTP">>)
    ELSE IF IsInstance(e, "SSHException")
    THEN HTTPException(500, <<"Erreur de connexion SSH">> \o Str(e))
    ELSE HTTPException(500, <<"Erreur lors du telechargement">> \o Str(e))

ErrorLine(e) ==
    IF IsInstance(e, "AuthenticationException")
    THEN <<"Echec d'authentification SFTP">>
    ELSE IF IsInstance(e, "SSHException")
    THEN <<"Erreur SSH">> \o Str(e)
    ELSE <<"Erreur inattendue">> \o Str(e)

HandleException(s) ==
    [Log(Add(s, ErrorLine(s.exc)), ErrorLine(s.exc))
       EXCEPT !.pending = [kind |-> "raise", value |-> Translate(s.exc)],
              !.exc = NoExc, !.pc = "finally_sftp"]

\* What the caller of download_files receives: the report, the
\* HTTPException as a status and a detail, or an exception of another class
\* that left the function as it was raised.
Deliver(pending) ==
    IF pending.kind = "return"
    THEN [kind |-> "report", status |-> 200, body |-> pending.value]
    ELSE IF pending.value.cls = "HTTPException"
    THEN [kind |-> "error", status |-> pending.value.status,
          body |-> pending.value.msg]
    ELSE [kind |-> "fault", status |-> 0, body |-> Str(pending.value)]

Finish(s) == [s EXCEPT !.pc = "done", !.response = Deliver(s.pending)]

\* CloseSftp with the two close calls in the other order: the transport is
\* closed first, then the SFTP client.
CloseSftpAfterSsh(s, result) ==
    IF s.sftp_client = "None" THEN [s EXCEPT !.pc = "finally_ssh"]
    ELSE LET s0 == Op([Op(s, "ssh.close", 0, "ok") EXCEPT !.ssh_client = "closed"],
                      "sftp.close", 0, result)
         IN  IF result = "ok"
             THEN [s0 EXCEPT !.sftp_client = "closed", !.pc = "finally_ssh"]
             ELSE [s0 EXCEPT !.pending =
                      [kind |-> "raise", value |-> Raised(result, <<"close failed">>)],
                      !.pc = "done",
                      !.response = [kind |-> "fault", status |-> 0,
                                    body |-> <<"close failed">>]]

CloseResults == {"ok", "EOFError"}

\* Lines 297-298: sftp_client.close() sends the channel's close message
\* over the transport; an exception it raises replaces the pending return
\* value or exception and leaves the finally block at once.
CloseSftp(s, result) ==
    IF s.sftp_client = "None" THEN [s EXCEPT !.pc = "finally_ssh"]
    ELSE LET s0 == Op(s, "sftp.close", 0, result)
         IN  IF result = "ok"
             THEN [s0 EXCEPT !.sftp_client = "closed", !.pc = "finally_ssh"]
             ELSE Finish([s0 EXCEPT !.pending =
                             [kind |-> "raise",
                              value |-> Raised(result, <<"close failed">>)]])

\* Lines 299-301: ssh_client.close() stops the transport thread and closes
\* the socket; it sends nothing.
CloseSsh(s) ==
    LET s0 == IF s.ssh_client = "None" THEN s
              ELSE [Op(s, "ssh.close", 0, "ok") EXCEPT !.ssh_client = "closed"]
    IN  Finish(Log(s0, <<"Connexions fermees">>))


(***************************************************************************)
(* State: the frame of every request, the remote directory, and the        *)
(* records handed to the module-level logger of line 13.  Nothing in the   *)
(* program reads the logger back, so the records are kept as a bag: the    *)
(* order in which concurrent requests reach the logger is not state.       *)
(***************************************************************************)
VARIABLES flow, remote_dir, logger

vars == <<flow, remote_dir, logger>>

\* The records of a sequence of log lines.
RECURSIVE Records(_)
Records(lines) ==
    IF lines = <<>> THEN EmptyBag
    ELSE SetToBag({Head(lines)}) (+) Records(Tail(lines))

\* Begin with missing_files a module-level list: an invocation starts with
\* what the other invocation has appended to it.
BeginModuleLevelList(r) ==
    LET other == CHOOSE q \in Requests : q # r IN
    [flow[r] EXCEPT !.emit = <<>>,
                    !.missing_files =
                        IF flow[r].pc = "start" THEN flow[other].missing_files ELSE @]

\* Begin with sftp_client a module-level handle: once another invocation
\* has closed it, it is closed for this one.
BeginSharedSession(r) ==
    [flow[r] EXCEPT !.emit = <<>>,
                    !.sftp_client =
                        IF @ = "open" /\ \E q \in Requests \ {r} :
                                             flow[q].sftp_client = "closed"
                        THEN "closed" ELSE @]

\* The frame of request r as its next step starts: the locals of lines
\* 98-103 belong to the invocation.
Begin(r) == [flow[r] EXCEPT !.emit = <<>>]

\* Request r takes a step to frame next; what the step logged reaches the
\* logger.
Step(r, next) ==
    /\ flow' = [flow EXCEPT ![r] = next]
    /\ logger' = logger (+) Records(next.emit)
    /\ UNCHANGED remote_dir

Requested ==
    { Request(blob, expected) :
        blob \in KeyBlobs, expected \in SeqsUpTo(Names, MaxExpected) }

\* A request slot no request has arrived in.
Idle == Frame("idle", Request(KeyBlob("garbage", FALSE, "RSA"), <<>>))

\* One request has arrived and is about to run download_files.
Init ==
    /\ remote_dir \in RemoteDirs
    /\ \E req \in Requested :
          flow = [r \in Requests |-> IF r = 1 THEN Frame("start", req) ELSE Idle]
    /\ logger = EmptyBag

RunLoadKey(r) ==
    /\ flow[r].pc = "start"
    /\ Step(r, LoadKey(Begin(r)))

RunConnect(r) ==
    /\ flow[r].pc = "connect"
    /\ \E result \in ConnectResults : Step(r, Connect(Begin(r), result))

RunOpenSftp(r) ==
    /\ flow[r].pc = "open_sftp"
    /\ \E result \in OpenSftpResults : Step(r, OpenSftp(Begin(r), result))

RunSetTimeout(r) ==
    /\ flow[r].pc = "settimeout"
    /\ Step(r, SetTimeout(Begin(r)))

RunListDir(r) ==
    /\ flow[r].pc = "listdir"
    /\ \E result \in ListDirResults : Step(r, ListDir(Begin(r), result, remote_dir))

RunNextFile(r) ==
    /\ flow[r].pc = "loop"
    /\ flow[r].i <= Len(flow[r].request.expected_files)
    /\ Step(r, NextFile(Begin(r)))

RunStat(r) ==
    /\ flow[r].pc = "stat"
    /\ \E result \in FetchResults : Step(r, Stat(Begin(r), result, remote_dir))

RunGetFo(r) ==
    /\ flow[r].pc = "getfo"
    /\ \E result \in FetchResults : Step(r, GetFo(Begin(r), result, remote_dir))

RunBuildReport(r) ==
    /\ flow[r].pc = "loop"
    /\ flow[r].i > Len(flow[r].request.expected_files)
    /\ Step(r, BuildReport(Begin(r)))

RunHandleException(r) ==
    /\ flow[r].pc = "except"
    /\ Step(r, HandleException(Begin(r)))

RunCloseSftp(r) ==
    /\ flow[r].pc = "finally_sftp"
    /\ \E result \in CloseResults : Step(r, CloseSftp(Begin(r), result))

RunCloseSsh(r) ==
    /\ flow[r].pc = "finally_ssh"
    /\ Step(r, CloseSsh(Begin(r)))

Next ==
    \E r \in Requests :
        \/ RunLoadKey(r)
        \/ RunConnect(r)
        \/ RunOpenSftp(r)
        \/ RunSetTimeout(r)
        \/ RunListDir(r)
        \/ RunNextFile(r)
        \/ RunStat(r)
        \/ RunGetFo(r)
        \/ RunBuildReport(r)
        \/ RunHandleException(r)
        \/ RunCloseSftp(r)
        \/ RunCloseSsh(r)

Spec == Init /\ [][Next]_vars

(***************************************************************************)
(* Two requests in flight at once against the same server, their steps     *)
(* interleaved in any order.  (The handler is a coroutine that never       *)
(* awaits, so one event loop runs its invocations one after the other;     *)
(* any interleaving covers that order and those of several workers.)       *)
(***************************************************************************)
ConcurrentDirs ==
    { <<Entry("a.txt", <<77, 97>>), Entry("b.txt", <<>>)>>,
      <<Entry("b.txt", <<77, 97>>), Entry("a.txt", <<>>)>> }

ConcurrentRequested ==
    { Request(blob, expected) :
        blob \in {KeyBlob("openssh", FALSE, "RSA"), KeyBlob("pem", FALSE, "ECDSA"),
                  KeyBlob("garbage", FALSE, "RSA")},
        expected \in SeqsUpTo({"a.txt", "c.txt"}, MaxConcurrentExpected) }

InitConcurrent ==
    /\ remote_dir \in ConcurrentDirs
    /\ flow \in [Requests -> {Frame("start", req) : req \in ConcurrentRequested}]
    /\ logger = EmptyBag

SpecConcurrent == InitConcurrent /\ [][Next]_vars


(***************************************************************************)
(* Properties.                                                             *)
(***************************************************************************)

\* Request r issued operation name for entry k (0: not about an entry) and
\* the library call ended with result.
Issued(s, name, k, result) ==
    \E j \in 1..Len(s.ops) : s.ops[j] = [op |-> name, i |-> k, result |-> result]

\* Request r issued some operation of the given names.
IssuedAny(s, names) == \E j \in 1..Len(s.ops) : s.ops[j].op \in names

KeyLoadFailed(s) == \E j \in 1..Len(s.ops) :
    s.ops[j].op = "load_key" /\ s.ops[j].result # "ok"

AuthRejected(s) == Issued(s, "connect", 0, "AuthenticationException")

ListingFailed(s) == \E j \in 1..Len(s.ops) :
    s.ops[j].op = "listdir" /\ s.ops[j].result # "ok"

ListingSucceeded(s) == Issued(s, "listdir", 0, "ok")

FetchFailure(s) == \E j \in 1..Len(s.ops) :
    s.ops[j].op \in {"stat", "getfo"} /\ s.ops[j].result # "ok"

TeardownCompleted(s) ==
    s.pc = "done" /\ ~ \E j \in 1..Len(s.ops) :
        s.ops[j].op = "sftp.close" /\ s.ops[j].result # "ok"

Reported(s) == s.response.kind = "report"

FileNames(files) == [k \in 1..Len(files) |-> files[k].filename]

\* The entries of expected whose outcome is kind, in their order.
RECURSIVE Pick(_, _, _)
Pick(expected, outcomes, kind) ==
    IF outcomes = <<>> \/ expected = <<>> THEN <<>>
    ELSE (IF Head(outcomes) = kind THEN <<Head(expected)>> ELSE <<>>)
         \o Pick(Tail(expected), Tail(outcomes), kind)

\* The bytes of the remote files of the entries that were downloaded.
RECURSIVE BytesDownloaded(_, _, _)
BytesDownloaded(dir, expected, outcomes) ==
    IF outcomes = <<>> \/ expected = <<>> THEN 0
    ELSE (IF Head(outcomes) = "Downloaded"
          THEN Len(RemoteData(dir, Head(expected))) ELSE 0)
         + BytesDownloaded(dir, Tail(expected), Tail(outcomes))

\* C1: after the fetch loop has processed k entries, exactly k outcomes are
\* recorded in downloaded_files and missing_files together, and a returned
\* report has len(downloaded_files) + len(missing_files) = len(expected_files).
C1_OneOutcomePerEntry ==
    \A r \in Requests :
        LET s == flow[r] IN
        /\ Len(s.downloaded_files) + Len(s.missing_files) = s.i - 1
        /\ Reported(s) =>
              Len(s.response.body.downloaded_files)
                + Len(s.response.body.missing_files)
              = Len(s.request.expected_files)

\* C1 witness: a report for a request naming the same file twice, one entry
\* downloaded and the other lost to a failed fetch.
C1_Witness ==
    \E r \in Requests :
        LET s == flow[r] IN
        /\ Reported(s)
        /\ Len(s.request.expected_files) = 2
        /\ s.request.expected_files[1] = s.request.expected_files[2]
        /\ Len(s.response.body.downloaded_files) = 1
        /\ Len(s.response.body.missing_files) = 1
        /\ FetchFailure(s)

\* C2: when the flow has ended, on any exit path, the transport handle and
\* the file-transfer handle that were opened are closed.
C2_HandlesClosedOnExit ==
    \A r \in Requests :
        LET s == flow[r] IN
        s.pc = "done" =>
            /\ s.ssh_client \in {"None", "closed"}
            /\ s.sftp_client \in {"None", "closed"}

\* C3: when loading the private key fails, the response sent to the caller
\* is a client error, status 400.
C3_KeyFailureIsClientError ==
    \A r \in Requests :
        LET s == flow[r] IN
        (s.pc = "done" /\ KeyLoadFailed(s)) =>
            (s.response.kind = "error" /\ s.response.status = 400)

\* C4: when listdir fails, no stat or getfo is issued, no outcome is
\* recorded, and the response (once the teardown has completed) is an error
\* of status 400, not a report.
C4_ListingFailureIsPathError ==
    \A r \in Requests :
        LET s == flow[r] IN
        ListingFailed(s) =>
            /\ ~IssuedAny(s, {"stat", "getfo"})
            /\ s.downloaded_files = <<>> /\ s.missing_files = <<>>
            /\ TeardownCompleted(s) =>
                  (s.response.kind = "error" /\ s.response.status = 400)

\* C5: when connect is rejected for authentication, the SFTP sub-session is
\* never opened, no listing or fetch is issued, no outcome is recorded, and
\* the response is an error of status 401.
C5_AuthRejectionIs401 ==
    \A r \in Requests :
        LET s == flow[r] IN
        AuthRejected(s) =>
            /\ ~IssuedAny(s, {"open_sftp", "settimeout", "listdir", "stat", "getfo"})
            /\ s.sftp_client = "None"
            /\ s.downloaded_files = <<>> /\ s.missing_files = <<>>
            /\ s.pc = "done" =>
                  (s.response.kind = "error" /\ s.response.status = 401)

\* C5 witness: a flow that has ended after connect was rejected.
C5_Witness ==
    \E r \in Requests :
        flow[r].pc = "done" /\ AuthRejected(flow[r])
        /\ flow[r].response.status = 401

\* C6: once the listing has succeeded, a failed stat or getfo records its
\* file as missing, every entry of expected_files is evaluated, and the
\* flow ends with a report whose success is false when a file is missing.
C6_FetchFailureNeverAborts ==
    \A r \in Requests :
        LET s == flow[r] IN
        ListingSucceeded(s) =>
            /\ \A j \in 1..Len(s.ops) :
                  (s.ops[j].op \in {"stat", "getfo"} /\ s.ops[j].result # "ok")
                      => /\ s.ops[j].i <= Len(s.outcomes)
                         /\ s.outcomes[s.ops[j].i] = "Missing"
                         /\ s.request.expected_files[s.ops[j].i]
                               \in Range(s.missing_files)
            /\ s.pc = "done" =>
                  /\ Reported(s)
                  /\ Len(s.outcomes) = Len(s.request.expected_files)
                  /\ s.response.body.success = (s.response.body.missing_files = <<>>)

\* C7: in a returned report, success is true exactly when missing_files is
\* empty, and stats.total_missing is the length of missing_files.
C7_SuccessIffNothingMissing ==
    \A r \in Requests :
        LET s == flow[r] IN
        Reported(s) =>
            /\ s.response.body.success <=> (s.response.body.missing_files = <<>>)
            /\ s.response.body.stats.total_missing
                  = Len(s.response.body.missing_files)

\* C7 witness: a report with a downloaded file and a missing file.
C7_Witness ==
    \E r \in Requests :
        LET s == flow[r] IN
        /\ Reported(s)
        /\ s.response.body.downloaded_files # <<>>
        /\ s.response.body.missing_files # <<>>
        /\ ~s.response.body.success

\* C8: an entry of expected_files is Downloaded exactly when its filename
\* is in the directory listing and its remote read succeeded, and Missing
\* otherwise; the report lists the entries by outcome and nothing else; with
\* listing {a.txt, b.txt}, expected [a.txt, c.txt] and no fetch failure the
\* report has downloaded [a.txt], missing [c.txt] and success false.
C8_OutcomeByListingAndRead ==
    \A r \in Requests :
        LET s == flow[r]
            expected == s.request.expected_files
            listing == Range(DirNames(remote_dir))
        IN
        /\ \A k \in 1..Len(s.outcomes) :
              /\ s.outcomes[k] \in {"Downloaded", "Missing"}
              /\ (s.outcomes[k] = "Downloaded")
                    <=> (expected[k] \in listing /\ Issued(s, "getfo", k, "ok"))
        /\ Reported(s) =>
              LET body == s.response.body IN
              /\ Len(s.outcomes) = Len(expected)
              /\ FileNames(body.downloaded_files) = Pick(expected, s.outcomes, "Downloaded")
              /\ body.missing_files = Pick(expected, s.outcomes, "Missing")
              /\ (/\ listing = {"a.txt", "b.txt"}
                  /\ expected = <<"a.txt", "c.txt">>
                  /\ ~FetchFailure(s))
                 => /\ FileNames(body.downloaded_files) = <<"a.txt">>
                    /\ body.missing_files = <<"c.txt">>
                    /\ body.success = FALSE

\* C8 witness: the report of the scenario.
C8_Witness ==
    \E r \in Requests :
        LET s == flow[r] IN
        /\ Reported(s)
        /\ Range(DirNames(remote_dir)) = {"a.txt", "b.txt"}
        /\ s.request.expected_files = <<"a.txt", "c.txt">>
        /\ ~FetchFailure(s)
        /\ FileNames(s.response.body.downloaded_files) = <<"a.txt">>

\* C9: in a returned report, stats.total_size_bytes is the sum of the sizes
\* of the entries of downloaded_files, each size is the length of the
\* content of the remote file, and entries that are missing add nothing.
C9_TotalSizeIsSumOfDownloaded ==
    \A r \in Requests :
        LET s == flow[r] IN
        Reported(s) =>
            LET body == s.response.body IN
            /\ \A k \in 1..Len(body.downloaded_files) :
                  body.downloaded_files[k].size
                    = Len(RemoteData(remote_dir, body.downloaded_files[k].filename))
            /\ body.stats.total_size_bytes
                  = BytesDownloaded(remote_dir, s.request.expected_files, s.outcomes)

\* C9 witness: a report with bytes downloaded and an entry lost to a failed
\* fetch.
C9_Witness ==
    \E r \in Requests :
        LET s == flow[r] IN
        /\ Reported(s)
        /\ s.response.body.stats.total_size_bytes > 0
        /\ FetchFailure(s)

\* C10: a flow that has ended has given the caller a report or an error of
\* status 400, 401 or 500 with a message; no exception left download_files
\* as it was raised.
C10_StructuredResponse ==
    \A r \in Requests :
        LET s == flow[r] IN
        s.pc = "done" =>
            \/ Reported(s)
            \/ /\ s.response.kind = "error"
               /\ s.response.status \in {400, 401, 500}
               /\ s.response.body # <<>>

IsFetchOp(o) == o.op \in {"stat", "getfo"}

\* The stat and getfo calls of a request with their results, in order.
FetchOps(s) == SelectSeq(s.ops, IsFetchOp)

RECURSIVE IsSubsequence(_, _)
IsSubsequence(a, b) ==
    IF a = <<>> THEN TRUE
    ELSE IF b = <<>> THEN FALSE
    ELSE IF Head(a) = Head(b) THEN IsSubsequence(Tail(a), Tail(b))
    ELSE IsSubsequence(a, Tail(b))

\* C12: downloaded_files and missing_files are each in the order of
\* expected_files (a subsequence of the entries evaluated so far, duplicates
\* included), whatever the order of the names in the directory listing.
C12_ListsInExpectedOrder ==
    \A r \in Requests :
        LET s == flow[r]
            evaluated == SubSeq(s.request.expected_files, 1, s.i - 1)
        IN  /\ IsSubsequence(FileNames(s.downloaded_files), evaluated)
            /\ IsSubsequence(s.missing_files, evaluated)
            /\ Reported(s) =>
                  /\ IsSubsequence(FileNames(s.response.body.downloaded_files),
                                   s.request.expected_files)
                  /\ IsSubsequence(s.response.body.missing_files,
                                   s.request.expected_files)

\* C12 witness: a report of two downloaded files whose names the listing
\* gives in the opposite order.
C12_Witness ==
    \E r \in Requests :
        /\ Reported(flow[r])
        /\ flow[r].request.expected_files = <<"a.txt", "b.txt">>
        /\ DirNames(remote_dir) = <<"b.txt", "a.txt">>
        /\ FileNames(flow[r].response.body.downloaded_files) = <<"a.txt", "b.txt">>

StatFailedFor(s, k) == \E j \in 1..Len(s.ops) :
    s.ops[j].op = "stat" /\ s.ops[j].i = k /\ s.ops[j].result # "ok"

GetFoIssuedFor(s, k) == \E j \in 1..Len(s.ops) :
    s.ops[j].op = "getfo" /\ s.ops[j].i = k

\* C13 (as claimed): when stat fails for a file of the listing, getfo is
\* still attempted for that file, and the file is Downloaded if getfo
\* succeeds.
C13_StatFailureStillFetches ==
    \A r \in Requests :
        LET s == flow[r] IN
        \A k \in 1..Len(s.request.expected_files) :
            StatFailedFor(s, k) =>
                /\ GetFoIssuedFor(s, k)
                /\ Issued(s, "getfo", k, "ok") => s.outcomes[k] = "Downloaded"

\* C13 (amended): when stat fails for a file of the listing, the file is
\* recorded as Missing, getfo is never issued for it, and the loop goes on to
\* the next entry: a report, when one is returned, covers every entry.
C13_StatFailureIsMissing ==
    \A r \in Requests :
        LET s == flow[r] IN
        \A k \in 1..Len(s.request.expected_files) :
            StatFailedFor(s, k) =>
                /\ ~GetFoIssuedFor(s, k)
                /\ s.i > k
                /\ Len(s.outcomes) >= k /\ s.outcomes[k] = "Missing"
                /\ s.request.expected_files[k] \in Range(s.missing_files)
                /\ Reported(s) => Len(s.outcomes) = Len(s.request.expected_files)

\* C13 witness: a report where stat failed for the first entry and the
\* second entry was downloaded.
C13_Witness ==
    \E r \in Requests :
        LET s == flow[r] IN
        /\ Reported(s)
        /\ StatFailedFor(s, 1)
        /\ Len(s.outcomes) = 2 /\ s.outcomes[2] = "Downloaded"

SftpCloseRaised(s) == \E j \in 1..Len(s.ops) :
    s.ops[j].op = "sftp.close" /\ s.ops[j].result # "ok"

\* C14: when sftp_client.close() raises during the teardown, the transport
\* handle is closed all the same and the caller receives the report or the
\* error that was decided; no close raises out of the flow.
C14_CloseNeverRaisesOut ==
    \A r \in Requests :
        LET s == flow[r] IN
        s.pc = "done" =>
            /\ s.response.kind \in {"report", "error"}
            /\ SftpCloseRaised(s) => s.ssh_client = "closed"

SessionFailed(s) == \E j \in 1..Len(s.ops) :
    \/ /\ s.ops[j].op = "connect"
       /\ s.ops[j].result \notin {"ok", "AuthenticationException"}
    \/ /\ s.ops[j].op = "open_sftp"
       /\ s.ops[j].result # "ok"

\* C15: when connect fails for another reason than an authentication
\* rejection, or open_sftp fails, no listing or fetch is issued and the
\* response is an error of status 500, never 400 or 401.
C15_SessionFailureIs500 ==
    \A r \in Requests :
        LET s == flow[r] IN
        SessionFailed(s) =>
            /\ ~IssuedAny(s, {"listdir", "stat", "getfo"})
            /\ s.downloaded_files = <<>> /\ s.missing_files = <<>>
            /\ s.pc = "done" =>
                  (s.response.kind = "error" /\ s.response.status = 500)

\* C15 witness: a flow that has ended after open_sftp failed on an
\* established transport.
C15_Witness ==
    \E r \in Requests :
        /\ flow[r].pc = "done"
        /\ Issued(flow[r], "open_sftp", 0, "SSHException")
        /\ flow[r].response.status = 500

\* How many times request s issued operation name for entry k.
Count(s, name, k) ==
    Cardinality({j \in 1..Len(s.ops) : s.ops[j].op = name /\ s.ops[j].i = k})

\* C16: within one request nothing is retried: the key is loaded, connect,
\* open_sftp and listdir are issued at most once, and for each entry of
\* expected_files at most one stat and one getfo are issued, whatever fails.
C16_NoRetries ==
    \A r \in Requests :
        LET s == flow[r] IN
        /\ \A name \in {"load_key", "connect", "open_sftp", "settimeout", "listdir",
                        "sftp.close", "ssh.close"} : Count(s, name, 0) <= 1
        /\ \A j \in 1..Len(s.ops) :
              s.ops[j].op \in {"stat", "getfo"} =>
                  /\ s.ops[j].i \in 1..Len(s.request.expected_files)
                  /\ Count(s, s.ops[j].op, s.ops[j].i) = 1

\* C16 witness: a flow that has ended after stat failed for one entry and
\* getfo failed for another.
C16_Witness ==
    \E r \in Requests :
        LET s == flow[r] IN
        /\ s.pc = "done"
        /\ \E k \in 1..Len(s.request.expected_files) : StatFailedFor(s, k)
        /\ \E k \in 1..Len(s.request.expected_files) :
              \E j \in 1..Len(s.ops) :
                  s.ops[j] = [op |-> "getfo", i |-> k, result |-> "IOError"]

\* C17: an expected filename that is not in the directory listing is
\* recorded as Missing by the membership test itself, and neither stat nor
\* getfo is ever issued for it.
C17_AbsentFileNoRemoteCall ==
    \A r \in Requests :
        LET s == flow[r]
            listing == Range(DirNames(remote_dir))
        IN  /\ s.pc \in {"stat", "getfo"} => Filename(s) \in listing
            /\ \A k \in 1..Len(s.request.expected_files) :
                  s.request.expected_files[k] \notin listing =>
                      /\ Count(s, "stat", k) = 0
                      /\ Count(s, "getfo", k) = 0
                      /\ k < s.i => s.outcomes[k] = "Missing"

\* C17 witness: a report for a request whose first file is absent from the
\* listing and whose second file was downloaded.
C17_Witness ==
    \E r \in Requests :
        LET s == flow[r] IN
        /\ Reported(s)
        /\ Len(s.request.expected_files) = 2
        /\ s.request.expected_files[1] \notin Range(DirNames(remote_dir))
        /\ s.outcomes = <<"Missing", "Downloaded">>

SessionSteps == <<"load_key", "connect", "open_sftp", "settimeout", "listdir">>

\* C18: the steps of a request come in the order key load, connect, open
\* SFTP, channel timeout, listing, then the fetches entry by entry (stat
\* before getfo); a step is issued only when every earlier step of the
\* session succeeded, and nothing follows a close.
C18_StepsInOrder ==
    \A r \in Requests :
        LET s == flow[r] IN
        \A j \in 1..Len(s.ops) :
            s.ops[j].op \notin {"sftp.close", "ssh.close"} =>
                /\ j <= Len(SessionSteps) => s.ops[j].op = SessionSteps[j]
                /\ j > Len(SessionSteps) => s.ops[j].op \in {"stat", "getfo"}
                /\ \A h \in 1..(j - 1) :
                      /\ s.ops[h].op \notin {"sftp.close", "ssh.close"}
                      /\ h <= Len(SessionSteps) => s.ops[h].result = "ok"
                      /\ h > Len(SessionSteps) => s.ops[h].i <= s.ops[j].i
                /\ s.ops[j].op = "getfo" =>
                      (j > 1 /\ s.ops[j - 1] = [op |-> "stat", i |-> s.ops[j].i,
                                               result |-> "ok"])

\* C18 witness: a report after every step ran, with a file transferred.
C18_Witness ==
    \E r \in Requests :
        /\ Reported(flow[r])
        /\ Issued(flow[r], "getfo", 1, "ok")

\* C19: with two requests interleaved, a request's session is opened and
\* closed by its own steps only, its outcome lists hold its own entries with
\* the outcomes of its own calls, and its log holds its own lines: one start
\* line, and file names of its own expected_files only.
C19_RequestsIsolated ==
    \A r \in Requests :
        LET s == flow[r]
            expected == s.request.expected_files
        IN
        /\ s.sftp_client = "closed" => Issued(s, "sftp.close", 0, "ok")
        /\ s.ssh_client = "closed" => Issued(s, "ssh.close", 0, "ok")
        /\ (Issued(s, "open_sftp", 0, "ok") /\ ~Issued(s, "sftp.close", 0, "ok"))
              => s.sftp_client = "open"
        /\ (Issued(s, "connect", 0, "ok") /\ ~Issued(s, "ssh.close", 0, "ok"))
              => s.ssh_client = "connected"
        /\ Len(s.outcomes) = s.i - 1
        /\ FileNames(s.downloaded_files) = Pick(expected, s.outcomes, "Downloaded")
        /\ s.missing_files = Pick(expected, s.outcomes, "Missing")
        /\ \A k \in 1..Len(s.outcomes) :
              (s.outcomes[k] = "Downloaded") <=> Issued(s, "getfo", k, "ok")
        /\ Cardinality({k \in 1..Len(s.logs) :
                           s.logs[k] = <<"Demarrage de la connexion SFTP">>}) <= 1
        /\ \A k \in 1..Len(s.logs) :
              LET line == s.logs[k] IN
              /\ line[1] \in {"Fichier manquant", "Telechargement",
                              "Erreur telechargement"}
                    => line[2] \in Range(expected)
              /\ line[1] \in Names => line[1] \in Range(expected)
              /\ line[1] = "Cle chargee avec succes" => line[2] = s.private_key
        /\ Reported(s) =>
              /\ s.response.body.logs = s.logs
              /\ s.response.body.downloaded_files = s.downloaded_files
              /\ s.response.body.missing_files = s.missing_files

\* C19 witness: one request has failed and torn its session down while the
\* other is in its fetch loop with its session open.
C19_Witness ==
    \E p, q \in Requests :
        /\ p # q
        /\ flow[p].pc = "done" /\ flow[p].response.kind = "error"
        /\ flow[p].sftp_client = "closed" /\ flow[p].ssh_client = "closed"
        /\ flow[q].pc \in {"stat", "getfo"}
        /\ flow[q].sftp_client = "open" /\ flow[q].ssh_client = "connected"

\* The operations request r issues in a step.
NewOps(r) == SubSeq(flow'[r].ops, Len(flow[r].ops) + 1, Len(flow'[r].ops))

\* C20: listdir, stat and getfo are issued only while the transport handle
\* is connected and the file-transfer handle is open; the file-transfer
\* handle is never open without the transport; and the transport is closed
\* only when the file-transfer handle is no longer open.
C20_RemoteOpsWhileOpen ==
    [][\A r \in Requests :
          /\ flow'[r].sftp_client = "open" => flow'[r].ssh_client = "connected"
          /\ \A j \in 1..Len(NewOps(r)) :
                /\ NewOps(r)[j].op \in {"listdir", "stat", "getfo"}
                      => /\ flow[r].ssh_client = "connected"
                         /\ flow[r].sftp_client = "open"
                /\ NewOps(r)[j].op = "ssh.close"
                      => flow[r].sftp_client # "open"]_vars

\* C20 witness: a flow that listed, transferred a file and closed both
\* handles.
C20_Witness ==
    \E r \in Requests :
        /\ flow[r].pc = "done"
        /\ Issued(flow[r], "getfo", 1, "ok")
        /\ Issued(flow[r], "sftp.close", 0, "ok")
        /\ Issued(flow[r], "ssh.close", 0, "ok")

====
